---- MODULE Spec2Model ----
(***************************************************************************)
(* Host manager: the state store (package state), the host initializer     *)
(* (package host), the kind/podman adapter (package kind) and the HTTP     *)
(* handlers (package server), as one state machine.                        *)
(*                                                                         *)
(* Process 0 is main(); the processes of Workers are the goroutines that  *)
(* net/http starts, one per request.  The state file is the only shared    *)
(* memory; every access to it is a step of its own, so that the            *)
(* interleavings of Load, of WriteFile's open(O_TRUNC) and of its write    *)
(* are all explored.                                                       *)
(***************************************************************************)
EXTENDS Integers, FiniteSets, Sequences, TLC

\* ------------------------------------------------------------- bounds
MaxClock == 3      \* time.Now() returns a value in 1..MaxClock
MaxBoots == 2      \* process starts explored
MaxReqs == 2       \* HTTP requests explored
MaxFaults == 1     \* failures explored: of an external command, of a file
                   \* write, or of the process itself (a crash)

\* ------------------------------------------------------------- values
Main == 0
Workers == {1, 2}
Procs == {Main} \cup Workers

BaseCluster == "kind"
Names == {"kind", "dev1", "dev2"}

Min(a, b) == IF a < b THEN a ELSE b

\* type ClusterInfo: Created is 0 for a nil pointer
ClusterInfo(status, created, type, kubevirt) ==
  [status |-> status, created |-> created, type |-> type, kubevirt |-> kubevirt]

NoClusters == [n \in {} |-> ClusterInfo("", 0, "", FALSE)]

\* type HostState, as Go's zero value: HostState{}.  clustersNil is TRUE
\* while the Clusters map is nil.
ZeroState ==
  [initialized |-> FALSE, initializedAt |-> 0, instanceType |-> "",
   storageType |-> "", storageDevice |-> "", packagesInstalled |-> FALSE,
   baseClusterReady |-> FALSE, registryRunning |-> FALSE,
   clustersNil |-> TRUE, clusters |-> NoClusters]

\* The state file: absent, a JSON document, or bytes that do not parse
\* ("trunc": what open(O_TRUNC) leaves, "corrupt": anything else), or a
\* path that cannot be read at all.
File(kind, rec) == [kind |-> kind, rec |-> rec]
NoFile == File("none", ZeroState)
TruncatedFile == File("trunc", ZeroState)
CorruptFile == File("corrupt", ZeroState)
UnreadableFile == File("unreadable", ZeroState)

\* json.MarshalIndent(state): every field is written; a nil map is written
\* as null and read back as a nil map.
MarshalIndent(hs) == File("json", hs)

\* json.Unmarshal(data, &state)
Unmarshal(f) ==
  IF f.kind = "json" THEN [err |-> "", st |-> f.rec]
  ELSE [err |-> "parse", st |-> ZeroState]

\* The state Load returns when there is no file.
FreshState == [ZeroState EXCEPT !.clustersNil = FALSE]

LoadNoFileIsError(f) ==
  IF f.kind \in {"none", "unreadable"} THEN [err |-> "read", st |-> ZeroState]
  ELSE LET u == Unmarshal(f) IN
       IF u.err # "" THEN u ELSE [u EXCEPT !.st.clustersNil = FALSE]

LoadDiscardsCorrupt(f) ==
  IF f.kind \in {"none", "trunc", "corrupt"} THEN [err |-> "", st |-> FreshState]
  ELSE IF f.kind = "unreadable" THEN [err |-> "read", st |-> ZeroState]
  ELSE [err |-> "", st |-> [f.rec EXCEPT !.clustersNil = FALSE]]

\* Manager.Load
Load(f) ==
  IF f.kind = "none" THEN [err |-> "", st |-> FreshState]
  ELSE IF f.kind = "unreadable" THEN [err |-> "read", st |-> ZeroState]
  ELSE LET u == Unmarshal(f) IN
       IF u.err # "" THEN u
       ELSE [u EXCEPT !.st.clustersNil = FALSE]

\* ------------------------------------------------ the five mutators' bodies
\* (what each does to the loaded state, between its Load and its Save)

Put(m, n, v) == [x \in DOMAIN m \cup {n} |-> IF x = n THEN v ELSE m[x]]
Drop(m, n) == [x \in DOMAIN m \ {n} |-> m[x]]

MarkInitializedOnce(hs, t, instanceType, storageType, storageDevice) ==
  IF hs.initialized THEN hs
  ELSE [hs EXCEPT !.initialized = TRUE, !.initializedAt = t,
                  !.instanceType = instanceType, !.storageType = storageType,
                  !.storageDevice = storageDevice, !.packagesInstalled = TRUE]

MarkInitializedFromFresh(hs, t, instanceType, storageType, storageDevice) ==
  [FreshState EXCEPT !.initialized = TRUE, !.initializedAt = t,
                     !.instanceType = instanceType, !.storageType = storageType,
                     !.storageDevice = storageDevice, !.packagesInstalled = TRUE]

\* Manager.MarkInitialized
MarkInitialized(hs, t, instanceType, storageType, storageDevice) ==
  [hs EXCEPT !.initialized = TRUE, !.initializedAt = t,
             !.instanceType = instanceType, !.storageType = storageType,
             !.storageDevice = storageDevice, !.packagesInstalled = TRUE]

UpdateClusterReplacesMap(hs, t, name, status, clusterType, kubevirt) ==
  [hs EXCEPT !.clusters = Put(NoClusters, name, ClusterInfo(status, t, clusterType, kubevirt))]

\* Manager.UpdateCluster
UpdateCluster(hs, t, name, status, clusterType, kubevirt) ==
  [hs EXCEPT !.clusters = Put(@, name, ClusterInfo(status, t, clusterType, kubevirt))]

RemoveClusterAbsentClears(hs, name) ==
  IF name \in DOMAIN hs.clusters THEN [hs EXCEPT !.clusters = Drop(@, name)]
  ELSE [hs EXCEPT !.clusters = NoClusters]

\* Manager.RemoveCluster: delete(state.Clusters, name)
RemoveCluster(hs, name) == [hs EXCEPT !.clusters = Drop(@, name)]

SetRegistryStatusResets(hs, running) ==
  [hs EXCEPT !.registryRunning = running, !.initialized = FALSE]

\* Manager.SetRegistryStatus
SetRegistryStatus(hs, running) == [hs EXCEPT !.registryRunning = running]

SetBaseClusterReadyAndRegistry(hs) ==
  [hs EXCEPT !.baseClusterReady = TRUE, !.registryRunning = TRUE]

\* Manager.SetBaseClusterReady
SetBaseClusterReady(hs) == [hs EXCEPT !.baseClusterReady = TRUE]

\* A call of a mutator: its name and arguments.
Call(fn, name, kubevirt, ctype, running, itype, stype, sdev) ==
  [fn |-> fn, name |-> name, kubevirt |-> kubevirt, ctype |-> ctype,
   running |-> running, itype |-> itype, stype |-> stype, sdev |-> sdev]
NoCall == Call("", "", FALSE, "", FALSE, "", "", "")
CallMarkInitialized(itype, stype, sdev) ==
  Call("MarkInitialized", "", FALSE, "", FALSE, itype, stype, sdev)
CallUpdateCluster(name, ctype, kubevirt) ==
  Call("UpdateCluster", name, kubevirt, ctype, FALSE, "", "", "")
CallRemoveCluster(name) == Call("RemoveCluster", name, FALSE, "", FALSE, "", "", "")
CallSetRegistryStatus(running) ==
  Call("SetRegistryStatus", "", FALSE, "", running, "", "", "")
CallSetBaseClusterReady == Call("SetBaseClusterReady", "", FALSE, "", FALSE, "", "", "")

UsesClock(c) == c.fn \in {"MarkInitialized", "UpdateCluster"}

\* The state a mutator hands to Save, from the state it loaded.
Mutate(c, hs, t) ==
  CASE c.fn = "MarkInitialized" -> MarkInitialized(hs, t, c.itype, c.stype, c.sdev)
    [] c.fn = "UpdateCluster" -> UpdateCluster(hs, t, c.name, "running", c.ctype, c.kubevirt)
    [] c.fn = "RemoveCluster" -> RemoveCluster(hs, c.name)
    [] c.fn = "SetRegistryStatus" -> SetRegistryStatus(hs, c.running)
    [] c.fn = "SetBaseClusterReady" -> SetBaseClusterReady(hs)
    [] OTHER -> hs


\* ------------------------------------------------------------- state
VARIABLES
  file,         \* /etc/host-manager-state.json
  now,          \* the wall clock: the last value time.Now() returned
  hostType,     \* the EC2 instance type of the host
  imds,         \* whether the EC2 metadata service answers on this host
  disk,         \* the instance-store device: "raw", "formatted" or "mounted"
  extRegistry,  \* the kind-registry container: "absent", "stopped", "running"
  extClusters,  \* the clusters that exist in kind
  pc,           \* pc[p]: where process p is in main() or in its handler
  sub,          \* sub[p]: where p is inside a mutator: "", "load", "open", "write"
  call,         \* call[p]: the mutator p is inside, with its arguments
  st,           \* st[p]: the *HostState p holds (the result of its last Load)
  lerr,         \* lerr[p]: the error of p's last Load ("" for nil)
  req,          \* req[p]: the request worker p serves (or served last)
  resp,         \* resp[p]: the HTTP status p answered (0: none yet)
  body,         \* body[p]: the cluster items of the answer
  desc,         \* the StorageConfig detectStorage returned to Initialize
  itype,        \* Initialize's local instanceType
  boots,        \* process starts so far
  faults,       \* failures injected so far
  nreqs,        \* requests accepted so far
  \* history variables, read by the properties only
  bootFile,     \* the file as main's Load found it at this start
  initLog,      \* what Initialize has called in this run, in order
  runFaults,    \* failures injected since this process started
  calls,        \* calls[p]: adapter calls made for p's current request
  saveOk,       \* saveOk[p]: p's last mutator call returned nil
  savePre,      \* savePre[p]: the file as p's open(O_TRUNC) found it
  lmid,         \* lmid[p]: p's last Load ran while another process was between
                \* the open and the write of its Save
  ltorn,        \* ltorn[p]: and it returned neither the record before that
                \* Save nor the record that Save wrote
  seen,         \* what main's Load found at this start: "", "initialized",
                \* "fresh" or "error"
  top           \* the progress ever persisted: each flag that a record on
                \* disk ever had true, and the first initialized_at

vars ==
  <<file, now, hostType, imds, disk, extRegistry, extClusters, pc, sub, call, st, lerr,
    req, resp, body, desc, itype, boots, faults, nreqs, bootFile, initLog, runFaults,
    calls, saveOk, savePre, lmid, ltorn, seen, top>>

envVars == <<hostType, imds>>
extVars == <<disk, extRegistry, extClusters>>
mainVars == <<desc, itype>>

\* type StorageConfig
StorageConfig(hasNVMe, device, type) ==
  [hasNVMe |-> hasNVMe, device |-> device, type |-> type]
NoStorage == StorageConfig(FALSE, "", "")

\* The hosts explored: an instance-store host with and without a metadata
\* service, and an EBS-only host.
Host(type, meta) == [type |-> type, imds |-> meta]
Hosts == {Host("m5d.large", TRUE), Host("m5d.large", FALSE), Host("m5.large", TRUE)}

\* hasNVMeStorage: the instance families of the pattern table
hasNVMeStorage(instanceType) == instanceType \in {"m5d.large"}

\* detectStorageFromInstanceType
detectStorageFromInstanceType(instanceType) ==
  IF hasNVMeStorage(instanceType)
  THEN StorageConfig(TRUE, "/dev/nvme1n1", "instance-store")
  ELSE StorageConfig(FALSE, "", "ebs-only")

\* scanForNVMeDevices with isInstanceStore: an nvme*n1 device counts only
\* while blkid finds no filesystem on it.
scanForNVMeDevices(type, d) ==
  IF hasNVMeStorage(type) /\ d = "raw"
  THEN StorageConfig(TRUE, "/dev/nvme1n1", "instance-store")
  ELSE StorageConfig(FALSE, "", "ebs-only")

NoReq == [op |-> "", name |-> "", kubevirt |-> FALSE]

\* An initialized host, as a successful run of Initialize leaves it.
InitializedState(type) ==
  [initialized |-> TRUE, initializedAt |-> 1, instanceType |-> type,
   storageType |-> detectStorageFromInstanceType(type).type,
   storageDevice |-> detectStorageFromInstanceType(type).device,
   packagesInstalled |-> TRUE, baseClusterReady |-> TRUE, registryRunning |-> TRUE,
   clustersNil |-> FALSE,
   clusters |-> Put(NoClusters, BaseCluster,
                    ClusterInfo("running", 1, "infrastructure", FALSE))]

\* The variables of the processes when the program starts, main being at
\* `where`.
ProcStart(where) ==
  [pc |-> [p \in Procs |-> IF p = Main THEN where ELSE "idle"],
   sub |-> [p \in Procs |-> ""],
   call |-> [p \in Procs |-> NoCall],
   st |-> [p \in Procs |-> ZeroState],
   lerr |-> [p \in Procs |-> ""],
   req |-> [p \in Procs |-> NoReq],
   resp |-> [p \in Procs |-> 0],
   body |-> [p \in Procs |-> {}],
   calls |-> [p \in Procs |-> <<>>],
   saveOk |-> [p \in Procs |-> FALSE],
   savePre |-> [p \in Procs |-> NoFile],
   lmid |-> [p \in Procs |-> FALSE],
   ltorn |-> [p \in Procs |-> FALSE],
   desc |-> NoStorage,
   itype |-> ""]

ProcIs(v) ==
  /\ pc = v.pc
  /\ sub = v.sub
  /\ call = v.call
  /\ st = v.st
  /\ lerr = v.lerr
  /\ req = v.req
  /\ resp = v.resp
  /\ body = v.body
  /\ calls = v.calls
  /\ saveOk = v.saveOk
  /\ savePre = v.savePre
  /\ lmid = v.lmid
  /\ ltorn = v.ltorn
  /\ desc = v.desc
  /\ itype = v.itype

ProcBecomes(v) ==
  /\ pc' = v.pc
  /\ sub' = v.sub
  /\ call' = v.call
  /\ st' = v.st
  /\ lerr' = v.lerr
  /\ req' = v.req
  /\ resp' = v.resp
  /\ body' = v.body
  /\ calls' = v.calls
  /\ saveOk' = v.saveOk
  /\ savePre' = v.savePre
  /\ lmid' = v.lmid
  /\ ltorn' = v.ltorn
  /\ desc' = v.desc
  /\ itype' = v.itype

\* The progress a record shows, added to the progress t shown before.
NoProgress ==
  [initialized |-> FALSE, initializedAt |-> 0, packagesInstalled |-> FALSE,
   baseClusterReady |-> FALSE, registryRunning |-> FALSE]

Raise(t, hs) ==
  [initialized |-> t.initialized \/ hs.initialized,
   initializedAt |-> IF t.initialized THEN t.initializedAt
                     ELSE IF hs.initialized THEN hs.initializedAt ELSE 0,
   packagesInstalled |-> t.packagesInstalled \/ hs.packagesInstalled,
   baseClusterReady |-> t.baseClusterReady \/ hs.baseClusterReady,
   registryRunning |-> t.registryRunning \/ hs.registryRunning]

\* The process has just been started for the first time: on a host nothing
\* was ever run on (no file, or a file somebody put there), or on a host
\* that an earlier run initialized.
Init ==
  /\ \E h \in Hosts : hostType = h.type /\ imds = h.imds
  /\ \/ /\ file \in {NoFile, CorruptFile, UnreadableFile, MarshalIndent(ZeroState)}
        /\ disk = "raw"
        /\ extRegistry = "absent"
        /\ extClusters = {}
     \/ /\ file = MarshalIndent(InitializedState(hostType))
        /\ disk = IF hasNVMeStorage(hostType) THEN "mounted" ELSE "raw"
        /\ extRegistry = "running"
        /\ extClusters = {BaseCluster}
  /\ now = 2
  /\ ProcIs(ProcStart("load"))
  /\ boots = 1
  /\ faults = 0
  /\ nreqs = 0
  /\ bootFile = NoFile
  /\ initLog = <<>>
  /\ runFaults = 0
  /\ seen = ""
  /\ top = Raise(NoProgress, file.rec)


\* ------------------------------------------------------------- helpers
\* time.Now() returns `now`, and the clock has moved on at the next call.
Tick(t) == Min(t + 1, MaxClock)

MayFail == faults < MaxFaults

\* A point of a process: where it goes on, the mutator it enters there (if
\* any) and the HTTP status it has answered.
At(where, c, status) == [pc |-> where, call |-> c, resp |-> status]

\* p goes on at k, having answered the cluster items b (if any).
Answer(p, k, b) ==
  /\ pc' = [pc EXCEPT ![p] = k.pc]
  /\ call' = [call EXCEPT ![p] = k.call]
  /\ sub' = [sub EXCEPT ![p] = IF k.call.fn = "" THEN "" ELSE "load"]
  /\ resp' = [resp EXCEPT ![p] = k.resp]
  /\ body' = [body EXCEPT ![p] = b]
  /\ initLog' = IF p = Main /\ k.call.fn # "" THEN Append(initLog, k.call.fn)
                ELSE initLog

Goto(p, k) == Answer(p, k, {})

Fault(n) ==
  /\ faults' = faults + n
  /\ runFaults' = runFaults + n

\* ------------------------------------------------------------- adapter
\* What a call of the adapter (or of a storage set-up function) did: the
\* error it returned, the outside world it left, the failures it met, the
\* state-changing commands it ran, in order, and the one that failed.
Outcome(err, ext, fault, cmds, failed) ==
  [err |-> err, ext |-> ext, fault |-> fault, cmds |-> cmds, failed |-> failed]

\* The record of a call that is kept with the request.
Invocation(fn, o) == [fn |-> fn, cmds |-> o.cmds, failed |-> o.failed, err |-> o.err]

KindCreate == "kind create cluster"
NodeConfig == "podman exec (registry config)"
NetworkConnect == "podman network connect"

\* Client.CreateCluster(name, true): "kind create cluster" refuses a name that
\* exists; otherwise the cluster is created and connectToRegistry runs: it
\* returns the error of a failing per-node command and ignores the error of
\* "podman network connect".
CreateCluster(name, ext, mayFail) ==
  IF name \in ext THEN {Outcome(TRUE, ext, 0, <<KindCreate>>, KindCreate)}
  ELSE {Outcome(FALSE, ext \cup {name}, 0, <<KindCreate, NodeConfig, NetworkConnect>>, "")}
       \cup (IF mayFail
             THEN {Outcome(TRUE, ext, 1, <<KindCreate>>, KindCreate),
                   Outcome(TRUE, ext \cup {name}, 1, <<KindCreate, NodeConfig>>, NodeConfig),
                   Outcome(FALSE, ext \cup {name}, 1,
                           <<KindCreate, NodeConfig, NetworkConnect>>, NetworkConnect)}
             ELSE {})

\* Client.DeleteCluster(name): "kind delete cluster" succeeds for a name
\* that does not exist.
DeleteCluster(name, ext, mayFail) ==
  {Outcome(FALSE, ext \ {name}, 0, <<"kind delete cluster">>, "")}
  \cup (IF mayFail THEN {Outcome(TRUE, ext, 1, <<"kind delete cluster">>,
                                 "kind delete cluster")}
        ELSE {})

\* Client.LoadImage(clusterName, imageName): "kind load docker-image" fails for
\* a cluster that does not exist; it changes no cluster and no container.
LoadImage(name, ext, mayFail) ==
  IF name \notin ext
  THEN {Outcome(TRUE, ext, 0, <<"kind load docker-image">>, "kind load docker-image")}
  ELSE {Outcome(FALSE, ext, 0, <<"kind load docker-image">>, "")}
       \cup (IF mayFail THEN {Outcome(TRUE, ext, 1, <<"kind load docker-image">>,
                                      "kind load docker-image")}
             ELSE {})

\* Client.GetKubeconfig(name): "kind get kubeconfig" fails for a cluster that
\* does not exist; it changes nothing.
GetKubeconfig(name, ext, mayFail) ==
  IF name \notin ext
  THEN {Outcome(TRUE, ext, 0, <<"kind get kubeconfig">>, "kind get kubeconfig")}
  ELSE {Outcome(FALSE, ext, 0, <<"kind get kubeconfig">>, "")}
       \cup (IF mayFail THEN {Outcome(TRUE, ext, 1, <<"kind get kubeconfig">>,
                                      "kind get kubeconfig")}
             ELSE {})

RegistryCommandAlwaysRun(reg) == <<"podman run">>

\* The command CreateRegistry runs after its two "podman inspect": none when
\* the container runs, "podman start" when it exists, "podman run" when it
\* does not.
RegistryCommand(reg) ==
  IF reg = "running" THEN <<>>
  ELSE IF reg = "stopped" THEN <<"podman start">>
  ELSE <<"podman run">>

\* Client.CreateRegistry
CreateRegistry(reg, mayFail) ==
  IF RegistryCommand(reg) = <<>> THEN {Outcome(FALSE, reg, 0, <<>>, "")}
  ELSE {Outcome(FALSE, "running", 0, RegistryCommand(reg), "")}
       \cup (IF mayFail
             THEN {Outcome(TRUE, reg, 1, RegistryCommand(reg), RegistryCommand(reg)[1])}
             ELSE {})

StorageConf == "write storage.conf"

ConfigureStorageAlwaysDefault(storage, d, mayFail) ==
  {Outcome(FALSE, d, 0, <<"mkdir", StorageConf>>, "")}
  \cup (IF mayFail THEN {Outcome(TRUE, d, 1, <<"mkdir">>, "mkdir")} ELSE {})

\* configureStorage: setupNVMeStorage / setupDefaultStorage, on the device
\* state d: mkfs.btrfs refuses a mounted device.  Both end in
\* setupContainerStorage, which writes /etc/containers/storage.conf.
ConfigureStorage(storage, d, mayFail) ==
  IF storage.hasNVMe
  THEN IF d = "mounted" THEN {Outcome(TRUE, d, 0, <<"mkfs.btrfs">>, "mkfs.btrfs")}
       ELSE {Outcome(FALSE, "mounted", 0,
                     <<"mkfs.btrfs", "mount", "mkdir", StorageConf>>, "")}
            \cup (IF mayFail
                  THEN {Outcome(TRUE, d, 1, <<"mkfs.btrfs">>, "mkfs.btrfs"),
                        Outcome(TRUE, "formatted", 1, <<"mkfs.btrfs", "mount">>, "mount")}
                  ELSE {})
  ELSE {Outcome(FALSE, d, 0, <<"mkdir", StorageConf>>, "")}
       \cup (IF mayFail THEN {Outcome(TRUE, d, 1, <<"mkdir">>, "mkdir")} ELSE {})

\* ------------------------------------------------------------- the store
ContIgnoresInitErrors(p, ok) ==
  CASE pc[p] = "setreg" -> At("cluster", NoCall, 0)
    [] pc[p] = "updcluster" -> At("baseready", CallSetBaseClusterReady, 0)
    [] pc[p] = "baseready" ->
         At("markinit", CallMarkInitialized(itype, desc.type, desc.device), 0)
    [] pc[p] = "markinit" ->
         IF ok THEN At("serving", NoCall, 0) ELSE At("exited", NoCall, 0)
    [] pc[p] = "cr_upd" -> At("done", NoCall, 201)
    [] pc[p] = "del_rm" -> At("done", NoCall, 200)
    [] pc[p] = "reg_set" -> At("done", NoCall, 200)
    [] OTHER -> At("done", NoCall, IF ok THEN 200 ELSE 500)

\* What follows a mutator's return, by the place it was called from.
Cont(p, ok) ==
  CASE pc[p] = "setreg" ->
         IF ok THEN At("cluster", NoCall, 0) ELSE At("exited", NoCall, 0)
    [] pc[p] = "updcluster" ->
         IF ok THEN At("baseready", CallSetBaseClusterReady, 0)
         ELSE At("exited", NoCall, 0)
    [] pc[p] = "baseready" ->
         IF ok THEN At("markinit", CallMarkInitialized(itype, desc.type, desc.device), 0)
         ELSE At("exited", NoCall, 0)
    [] pc[p] = "markinit" ->
         IF ok THEN At("serving", NoCall, 0) ELSE At("exited", NoCall, 0)
    \* handleCreateCluster, handleDeleteCluster, handleRegistryStart: the
    \* mutator's error is logged and the request answered as a success
    [] pc[p] = "cr_upd" -> At("done", NoCall, 201)
    [] pc[p] = "del_rm" -> At("done", NoCall, 200)
    [] pc[p] = "reg_set" -> At("done", NoCall, 200)
    \* a direct caller of the store
    [] OTHER -> At("done", NoCall, IF ok THEN 200 ELSE 500)

\* The mutator returns to its caller; its local state is gone.
Return(p, ok) ==
  /\ Goto(p, Cont(p, ok))
  /\ st' = [st EXCEPT ![p] = ZeroState]
  /\ savePre' = [savePre EXCEPT ![p] = NoFile]
  /\ saveOk' = [saveOk EXCEPT ![p] = ok]
  /\ bootFile' = IF Cont(p, ok).pc = "serving" THEN NoFile ELSE bootFile

MidSave(p) == {q \in Procs \ {p} : sub[q] = "write"}

\* The records a Load of p may return while the processes of MidSave(p) are
\* inside their Save: what was there before, or what is being written.
Whole(p) == UNION {{Load(savePre[q]), [err |-> "", st |-> st[q]]} : q \in MidSave(p)}

\* p has called Load, which returned r.
Loaded(p, r) ==
  /\ lerr' = [lerr EXCEPT ![p] = r.err]
  /\ lmid' = [lmid EXCEPT ![p] = MidSave(p) # {}]
  /\ ltorn' = [ltorn EXCEPT ![p] = MidSave(p) # {} /\ r \notin Whole(p)]

\* p calls Load and keeps what it returned.
LoadBy(p, r) ==
  /\ st' = [st EXCEPT ![p] = r.st]
  /\ Loaded(p, r)

\* The first line of every mutator: state, err := m.Load()
MutLoad(p) ==
  /\ sub[p] = "load"
  /\ LET r == Load(file) IN
       IF r.err # "" THEN Loaded(p, r) /\ Return(p, FALSE)
       ELSE /\ LoadBy(p, r)
            /\ sub' = [sub EXCEPT ![p] = "open"]
            /\ UNCHANGED <<pc, call, resp, body, initLog, saveOk, savePre, bootFile>>
  /\ UNCHANGED <<file, now, envVars, extVars, req, mainVars, boots, faults, nreqs,
                 runFaults, calls, seen, top>>

\* The mutator changes the state it loaded and calls Save, whose WriteFile
\* opens the file with O_TRUNC.
SaveOpen(p) ==
  /\ sub[p] = "open"
  /\ LET t == now IN
       /\ now' = IF UsesClock(call[p]) THEN Tick(now) ELSE now
       /\ \/ /\ file.kind # "unreadable"
             /\ file' = TruncatedFile
             /\ st' = [st EXCEPT ![p] = Mutate(call[p], st[p], t)]
             /\ savePre' = [savePre EXCEPT ![p] = file]
             /\ sub' = [sub EXCEPT ![p] = "write"]
             /\ UNCHANGED <<pc, call, resp, body, initLog, saveOk, bootFile, faults,
                            runFaults>>
          \/ /\ file.kind = "unreadable" \/ MayFail
             /\ Fault(IF file.kind = "unreadable" THEN 0 ELSE 1)
             /\ Return(p, FALSE)
             /\ UNCHANGED file
  /\ UNCHANGED <<envVars, extVars, lerr, req, mainVars, boots, nreqs, calls, lmid,
                 ltorn, seen, top>>

\* The length of the JSON document grows with the number of clusters.
Longer(f, hs) ==
  f.kind = "json" /\ Cardinality(DOMAIN f.rec.clusters) > Cardinality(DOMAIN hs.clusters)

\* The file after len(data) bytes were written at offset 0 of f: what another
\* writer wrote there meanwhile stays behind the data when it was longer.
Written(f, hs) == IF Longer(f, hs) THEN CorruptFile ELSE MarshalIndent(hs)

\* WriteFile writes the data and closes the file.
SaveWrite(p) ==
  /\ sub[p] = "write"
  /\ \/ /\ file' = Written(file, st[p])
        /\ Return(p, TRUE)
        /\ UNCHANGED <<faults, runFaults>>
     \/ /\ MayFail
        /\ Fault(1)
        /\ file' = IF file.kind = "trunc" THEN TruncatedFile ELSE CorruptFile
        /\ Return(p, FALSE)
  /\ top' = IF file'.kind = "json" THEN Raise(top, file'.rec) ELSE top
  /\ UNCHANGED <<now, envVars, extVars, lerr, req, mainVars, boots, nreqs, calls,
                 lmid, ltorn, seen>>


\* ------------------------------------------------------------- main
storeVars == <<st, lerr, saveOk, savePre, lmid, ltorn>>

NeedsInitAlways(hostState) == TRUE

\* main: if !hostState.Initialized
NeedsInit(hostState) == ~hostState.initialized

\* main: hostState, err := stateManager.Load(); a failure is logged and the
\* host taken for a fresh one.
MainLoad ==
  /\ pc[Main] = "load"
  /\ LET r == Load(file)
         hostState == IF r.err # "" THEN ZeroState ELSE r.st
     IN /\ LoadBy(Main, [err |-> r.err, st |-> hostState])
        /\ Goto(Main, IF NeedsInit(hostState) THEN At("detect", NoCall, 0)
                      ELSE At("serving", NoCall, 0))
        /\ seen' = IF r.err # "" THEN "error"
                   ELSE IF hostState.initialized THEN "initialized" ELSE "fresh"
        /\ bootFile' = IF NeedsInit(hostState) THEN file ELSE NoFile
  /\ UNCHANGED <<top, file, now, envVars, extVars, req, mainVars, boots, faults, nreqs,
                 runFaults, calls, saveOk, savePre>>

\* A step of Initialize that touches neither the file nor a process but main.
InitStep(name, k) ==
  /\ pc' = [pc EXCEPT ![Main] = k.pc]
  /\ call' = [call EXCEPT ![Main] = k.call]
  /\ sub' = [sub EXCEPT ![Main] = IF k.call.fn = "" THEN "" ELSE "load"]
  /\ initLog' = IF k.call.fn = "" THEN Append(initLog, name)
                ELSE Append(Append(initLog, name), k.call.fn)
  /\ UNCHANGED <<file, now, envVars, storeVars, req, resp, body, boots, nreqs,
                 bootFile, seen, top>>

OrExitServes(err, k) == IF err THEN At("serving", NoCall, 0) ELSE k

\* Initialize returns the error of the step that failed and main exits on it
\* (os.Exit(1)); otherwise Initialize goes on at k.
OrExit(err, k) == IF err THEN At("exited", NoCall, 0) ELSE k

\* getInstanceType
getInstanceType == IF imds THEN [err |-> FALSE, type |-> hostType]
                   ELSE [err |-> TRUE, type |-> ""]

\* detectStorage: by the instance type when the metadata service answers,
\* by scanning /dev otherwise
detectStorage ==
  IF ~getInstanceType.err THEN detectStorageFromInstanceType(getInstanceType.type)
  ELSE scanForNVMeDevices(hostType, disk)

\* Initialize: detectStorage(), then getInstanceType() once more
Detect ==
  /\ pc[Main] = "detect"
  /\ \/ /\ desc' = detectStorage
        /\ itype' = IF ~getInstanceType.err THEN getInstanceType.type ELSE "unknown"
        /\ InitStep("detectStorage", At("install", NoCall, 0))
        /\ UNCHANGED <<faults, runFaults>>
     \/ /\ getInstanceType.err /\ MayFail
        /\ Fault(1)
        /\ InitStep("detectStorage", OrExit(TRUE, At("install", NoCall, 0)))
        /\ UNCHANGED mainVars
  /\ UNCHANGED <<extVars, calls>>

\* Initialize: installPackages()
Install ==
  /\ pc[Main] = "install"
  /\ \/ /\ InitStep("installPackages", At("storage", NoCall, 0))
        /\ UNCHANGED <<faults, runFaults>>
     \/ /\ MayFail
        /\ Fault(1)
        /\ InitStep("installPackages", OrExit(TRUE, At("storage", NoCall, 0)))
  /\ UNCHANGED <<extVars, mainVars, calls>>

\* Initialize: m.configureStorage(storage), then configureSSH (a placeholder)
Storage ==
  /\ pc[Main] = "storage"
  /\ \E o \in ConfigureStorage(desc, disk, MayFail) :
       /\ disk' = o.ext
       /\ Fault(o.fault)
       /\ calls' = [calls EXCEPT ![Main] = Append(@, Invocation("configureStorage", o))]
       /\ InitStep(IF desc.hasNVMe THEN "setupNVMeStorage" ELSE "setupDefaultStorage",
                   OrExit(o.err, At("registry", NoCall, 0)))
  /\ UNCHANGED <<extRegistry, extClusters, mainVars>>

\* createBaseInfrastructure: CreateRegistry, then SetRegistryStatus(true)
Registry ==
  /\ pc[Main] = "registry"
  /\ \E o \in CreateRegistry(extRegistry, MayFail) :
       /\ extRegistry' = o.ext
       /\ Fault(o.fault)
       /\ InitStep("CreateRegistry",
                   OrExit(o.err, At("setreg", CallSetRegistryStatus(TRUE), 0)))
  /\ UNCHANGED <<disk, extClusters, mainVars, calls>>

\* createBaseInfrastructure: CreateCluster("kind", true), then
\* UpdateCluster("kind", "running", "infrastructure", false)
Cluster ==
  /\ pc[Main] = "cluster"
  /\ \E o \in CreateCluster(BaseCluster, extClusters, MayFail) :
       /\ extClusters' = o.ext
       /\ Fault(o.fault)
       /\ InitStep("CreateCluster",
                   OrExit(o.err, At("updcluster",
                                            CallUpdateCluster(BaseCluster, "infrastructure",
                                                              FALSE), 0)))
  /\ UNCHANGED <<disk, extRegistry, mainVars, calls>>

\* The process dies (a signal, a power cut) wherever it is; its goroutines
\* die with it.  The file and the outside world stay as they are.
Crash ==
  /\ pc[Main] \notin {"down", "exited"}
  /\ MayFail
  /\ Fault(1)
  /\ ProcBecomes(ProcStart("down"))
  /\ UNCHANGED <<file, now, envVars, extVars, boots, nreqs, bootFile, initLog, seen, top>>

\* The process is started again.
Boot ==
  /\ pc[Main] \in {"down", "exited"}
  /\ boots < MaxBoots
  /\ boots' = boots + 1
  /\ ProcBecomes(ProcStart("load"))
  /\ initLog' = <<>>
  /\ runFaults' = 0
  /\ seen' = ""
  /\ bootFile' = NoFile
  /\ UNCHANGED <<top, file, now, envVars, extVars, faults, nreqs>>


\* ------------------------------------------------------------- server
ReqNames == Names \cup {""}

Request(op, name, kubevirt) == [op |-> op, name |-> name, kubevirt |-> kubevirt]

\* A request to load an image into a cluster; an empty image stands for a
\* body without one.
ImageRequest(name, image) == [op |-> "loadImage", name |-> name, image |-> image]

Images == {"", "app:1"}

\* The requests explored: kubevirt is asked for with one of the names only,
\* a kubeconfig for the base cluster and an image for one cluster.
Requests ==
  {Request("create", n, FALSE) : n \in ReqNames}
  \cup {Request("create", "dev1", TRUE)}
  \cup {Request("delete", n, FALSE) : n \in Names}
  \cup {Request(op, "", FALSE) : op \in {"list", "registryStart"}}
  \cup {Request("kubeconfig", BaseCluster, FALSE), ImageRequest("dev1", "app:1")}

\* net/http accepts a request and starts a goroutine for it.
Accept(w) ==
  /\ pc[Main] = "serving"
  /\ pc[w] = "idle"
  /\ \A v \in Workers : v < w => pc[v] # "idle"
  /\ nreqs < MaxReqs
  /\ nreqs' = nreqs + 1
  /\ \E r \in Requests : req' = [req EXCEPT ![w] = r]
  /\ pc' = [pc EXCEPT ![w] = "begin"]
  /\ UNCHANGED <<file, now, envVars, extVars, sub, call, storeVars, resp, body, calls,
                 mainVars, boots, faults, bootFile, initLog, runFaults, seen, top>>

\* The handler returns: the response is on its way and the goroutine ends.
Finish(w) ==
  /\ pc[w] = "done"
  /\ pc' = [pc EXCEPT ![w] = "idle"]
  /\ req' = [req EXCEPT ![w] = NoReq]
  /\ resp' = [resp EXCEPT ![w] = 0]
  /\ body' = [body EXCEPT ![w] = {}]
  /\ calls' = [calls EXCEPT ![w] = <<>>]
  /\ st' = [st EXCEPT ![w] = ZeroState]
  /\ lerr' = [lerr EXCEPT ![w] = ""]
  /\ lmid' = [lmid EXCEPT ![w] = FALSE]
  /\ ltorn' = [ltorn EXCEPT ![w] = FALSE]
  /\ saveOk' = [saveOk EXCEPT ![w] = FALSE]
  /\ UNCHANGED <<file, now, envVars, extVars, sub, call, savePre, mainVars, boots,
                 faults, nreqs, bootFile, initLog, runFaults, seen, top>>

\* A step of a handler that leaves the file and the other processes alone.
HandlerFrame ==
  UNCHANGED <<file, now, envVars, disk, req, mainVars, boots, nreqs, bootFile,
              saveOk, savePre, seen, top>>

ExistsNever(hostState, name) == FALSE

\* handleCreateCluster: if _, exists := hostState.Clusters[req.Name]; exists
Exists(hostState, name) == name \in DOMAIN hostState.clusters

\* handleCreateCluster, up to the conflict check
CreateCheck(w) ==
  /\ pc[w] = "begin" /\ req[w].op = "create"
  /\ IF req[w].name = ""
     THEN /\ Goto(w, At("done", NoCall, 400))
          /\ UNCHANGED <<st, lerr, lmid, ltorn>>
     ELSE LET r == Load(file) IN
          /\ LoadBy(w, r)
          /\ Goto(w, IF r.err # "" THEN At("done", NoCall, 500)
                     ELSE IF Exists(r.st, req[w].name) THEN At("done", NoCall, 409)
                     ELSE At("cr_tool", NoCall, 0))
  /\ HandlerFrame
  /\ UNCHANGED <<extRegistry, extClusters, faults, runFaults, calls>>

\* handleCreateCluster: the type of the new entry
ClusterType(name) == IF name = BaseCluster THEN "infrastructure" ELSE "development"

AfterCreateClusterIgnoresError(name, kubevirt, err) ==
  At("cr_upd", CallUpdateCluster(name, ClusterType(name), kubevirt), 0)

\* handleCreateCluster: what follows s.kindClient.CreateCluster, by its error
AfterCreateCluster(name, kubevirt, err) ==
  IF err THEN At("done", NoCall, 500)
  ELSE At("cr_upd", CallUpdateCluster(name, ClusterType(name), kubevirt), 0)

\* handleCreateCluster: s.kindClient.CreateCluster(req.Name, true), then
\* UpdateCluster
CreateTool(w) ==
  /\ pc[w] = "cr_tool"
  /\ \E o \in CreateCluster(req[w].name, extClusters, MayFail) :
       /\ extClusters' = o.ext
       /\ Fault(o.fault)
       /\ calls' = [calls EXCEPT ![w] = Append(@, Invocation("CreateCluster", o))]
       /\ Goto(w, AfterCreateCluster(req[w].name, req[w].kubevirt, o.err))
  /\ HandlerFrame
  /\ UNCHANGED <<extRegistry, st, lerr, lmid, ltorn>>

IsProtectedNever(name) == FALSE

\* handleDeleteCluster: if name == "kind"
IsProtected(name) == name = BaseCluster

\* handleDeleteCluster: the check, s.kindClient.DeleteCluster(name), then
\* RemoveCluster
AfterDeleteClusterIgnoresError(name, err) ==
  At("del_rm", CallRemoveCluster(name), 0)

\* handleDeleteCluster after kindClient.DeleteCluster returned: 500 on its
\* error, otherwise on to stateManager.RemoveCluster.
AfterDeleteCluster(name, err) ==
  IF err THEN At("done", NoCall, 500) ELSE At("del_rm", CallRemoveCluster(name), 0)

Delete(w) ==
  /\ pc[w] = "begin" /\ req[w].op = "delete"
  /\ IF IsProtected(req[w].name)
     THEN /\ Goto(w, At("done", NoCall, 403))
          /\ UNCHANGED <<extClusters, faults, runFaults, calls>>
     ELSE \E o \in DeleteCluster(req[w].name, extClusters, MayFail) :
            /\ extClusters' = o.ext
            /\ Fault(o.fault)
            /\ calls' = [calls EXCEPT ![w] = Append(@, Invocation("DeleteCluster", o))]
            /\ Goto(w, AfterDeleteCluster(req[w].name, o.err))
  /\ HandlerFrame
  /\ UNCHANGED <<extRegistry, st, lerr, lmid, ltorn>>

\* handleRegistryStart: s.kindClient.CreateRegistry(), then
\* SetRegistryStatus(true)
RegistryStart(w) ==
  /\ pc[w] = "begin" /\ req[w].op = "registryStart"
  /\ \E o \in CreateRegistry(extRegistry, MayFail) :
       /\ extRegistry' = o.ext
       /\ Fault(o.fault)
       /\ calls' = [calls EXCEPT ![w] = Append(@, Invocation("CreateRegistry", o))]
       /\ Goto(w, IF o.err THEN At("done", NoCall, 500)
                  ELSE At("reg_set", CallSetRegistryStatus(TRUE), 0))
  /\ HandlerFrame
  /\ UNCHANGED <<extClusters, st, lerr, lmid, ltorn>>

\* type ClusterResponse, with the HTTP status of the answer
ClusterResponse(code, name, info) ==
  [code |-> code, name |-> name, status |-> info.status, created |-> info.created,
   type |-> info.type, kubevirt |-> info.kubevirt]

handleListClustersSkipsBase(r) ==
  [code |-> IF r.err # "" THEN 500 ELSE 200,
   clusters |-> {ClusterResponse(200, n, r.st.clusters[n]) :
                   n \in DOMAIN r.st.clusters \ {BaseCluster}}]

\* handleListClusters: the answer built from what Load returned, an item for
\* each entry of hostState.Clusters
handleListClusters(r) ==
  IF r.err # "" THEN [code |-> 500, clusters |-> {}]
  ELSE [code |-> 200,
        clusters |-> {ClusterResponse(200, n, r.st.clusters[n]) :
                        n \in DOMAIN r.st.clusters}]

\* handleListClusters
ListClusters(w) ==
  /\ pc[w] = "begin" /\ req[w].op = "list"
  /\ LET r == Load(file) IN
       /\ LoadBy(w, r)
       /\ Answer(w, At("done", NoCall, handleListClusters(r).code),
                 handleListClusters(r).clusters)
  /\ HandlerFrame
  /\ UNCHANGED <<extRegistry, extClusters, faults, runFaults, calls>>

AfterLoadImageRecords(name, err) ==
  At("li_upd", CallUpdateCluster(name, ClusterType(name), FALSE), 0)

\* handleLoadImage after s.kindClient.LoadImage returned: 500 on its error,
\* otherwise the answer.
AfterLoadImage(name, err) ==
  IF err THEN At("done", NoCall, 500) ELSE At("done", NoCall, 200)

\* handleLoadImage
handleLoadImage(w) ==
  /\ pc[w] = "begin" /\ req[w].op = "loadImage"
  /\ IF req[w].image = ""
     THEN /\ Goto(w, At("done", NoCall, 400))
          /\ UNCHANGED <<faults, runFaults, calls>>
     ELSE \E o \in LoadImage(req[w].name, extClusters, MayFail) :
            /\ Fault(o.fault)
            /\ calls' = [calls EXCEPT ![w] = Append(@, Invocation("LoadImage", o))]
            /\ Goto(w, AfterLoadImage(req[w].name, o.err))
  /\ HandlerFrame
  /\ UNCHANGED <<extRegistry, extClusters, st, lerr, lmid, ltorn>>

AfterGetKubeconfigTwice(name, err) ==
  IF err THEN At("begin", NoCall, 0) ELSE At("done", NoCall, 200)

\* handleGetKubeconfig after s.kindClient.GetKubeconfig returned: 500 on its
\* error, otherwise the kubeconfig.
AfterGetKubeconfig(name, err) ==
  IF err THEN At("done", NoCall, 500) ELSE At("done", NoCall, 200)

\* handleGetKubeconfig
handleGetKubeconfig(w) ==
  /\ pc[w] = "begin" /\ req[w].op = "kubeconfig"
  /\ \E o \in GetKubeconfig(req[w].name, extClusters, MayFail) :
       /\ Fault(o.fault)
       /\ calls' = [calls EXCEPT ![w] = Append(@, Invocation("GetKubeconfig", o))]
       /\ Goto(w, AfterGetKubeconfig(req[w].name, o.err))
  /\ HandlerFrame
  /\ UNCHANGED <<extRegistry, extClusters, st, lerr, lmid, ltorn>>

\* ------------------------------------------------------------- the program
Next ==
  \/ MainLoad
  \/ Detect
  \/ Install
  \/ Storage
  \/ Registry
  \/ Cluster
  \/ Crash
  \/ Boot
  \/ \E p \in Procs : MutLoad(p)
  \/ \E p \in Procs : SaveOpen(p)
  \/ \E p \in Procs : SaveWrite(p)
  \/ \E w \in Workers : Accept(w)
  \/ \E w \in Workers : Finish(w)
  \/ \E w \in Workers : CreateCheck(w)
  \/ \E w \in Workers : CreateTool(w)
  \/ \E w \in Workers : Delete(w)
  \/ \E w \in Workers : RegistryStart(w)
  \/ \E w \in Workers : ListClusters(w)
  \/ \E w \in Workers : handleLoadImage(w)
  \/ \E w \in Workers : handleGetKubeconfig(w)

Spec == Init /\ [][Next]_vars

\* ------------------------------------------------ the store, called directly
\* Any caller of the store's exported methods, on any file: two goroutines
\* that call Load and the five mutators with arbitrary arguments.
StoreFiles ==
  {NoFile, CorruptFile, TruncatedFile, UnreadableFile, MarshalIndent(ZeroState),
   MarshalIndent(InitializedState("m5d.large")),
   MarshalIndent(UpdateCluster(InitializedState("m5.large"), 1, "dev1", "running",
                               "development", TRUE))}

StoreCalls ==
  {CallMarkInitialized("unknown", "ebs-only", ""), CallSetBaseClusterReady}
  \cup {CallUpdateCluster(n, ClusterType(n), k) : n \in Names, k \in BOOLEAN}
  \cup {CallRemoveCluster(n) : n \in Names}
  \cup {CallSetRegistryStatus(b) : b \in BOOLEAN}

StoreInit ==
  /\ file \in StoreFiles
  /\ hostType = "m5d.large" /\ imds = TRUE
  /\ disk = "raw" /\ extRegistry = "absent" /\ extClusters = {}
  /\ now = 2
  /\ ProcIs(ProcStart("serving"))
  /\ boots = 1 /\ faults = 0 /\ nreqs = 0
  /\ bootFile = NoFile /\ initLog = <<>> /\ runFaults = 0 /\ seen = ""
  /\ top = Raise(NoProgress, file.rec)

StoreFrame ==
  UNCHANGED <<file, now, envVars, extVars, mainVars, boots, faults, bootFile,
              runFaults, saveOk, savePre, seen, top, calls>>

\* A goroutine calls one of the mutators.
StoreCall(w) ==
  /\ pc[w] = "idle"
  /\ \A v \in Workers : v < w => pc[v] # "idle"
  /\ nreqs < MaxReqs
  /\ nreqs' = nreqs + 1
  /\ \E c \in StoreCalls :
       /\ Goto(w, At("store", c, 0))
       /\ req' = [req EXCEPT ![w] = Request(c.fn, c.name, c.kubevirt)]
  /\ StoreFrame
  /\ UNCHANGED <<st, lerr, lmid, ltorn>>

\* A goroutine calls Load.
StoreLoad(w) ==
  /\ pc[w] = "idle"
  /\ \A v \in Workers : v < w => pc[v] # "idle"
  /\ nreqs < MaxReqs
  /\ nreqs' = nreqs + 1
  /\ LET r == Load(file) IN
       /\ LoadBy(w, r)
       /\ Goto(w, At("done", NoCall, IF r.err # "" THEN 500 ELSE 200))
  /\ req' = [req EXCEPT ![w] = Request("Load", "", FALSE)]
  /\ StoreFrame

StoreNext ==
  \/ \E w \in Workers : StoreCall(w)
  \/ \E w \in Workers : StoreLoad(w)
  \/ \E w \in Workers : MutLoad(w)
  \/ \E w \in Workers : SaveOpen(w)
  \/ \E w \in Workers : SaveWrite(w)
  \/ \E w \in Workers : Finish(w)

StoreSpec == StoreInit /\ [][StoreNext]_vars

\* ------------------------------------------- the server, one request at a time
\* handleGetCluster: the answer to GET /clusters/{name} when the file is f
handleGetCluster(f, name) ==
  LET r == Load(f) IN
  IF r.err # "" THEN ClusterResponse(500, "", ClusterInfo("", 0, "", FALSE))
  ELSE IF name \notin DOMAIN r.st.clusters
       THEN ClusterResponse(404, "", ClusterInfo("", 0, "", FALSE))
       ELSE ClusterResponse(200, name, r.st.clusters[name])

\* handleGetCluster
GetCluster(w) ==
  /\ pc[w] = "begin" /\ req[w].op = "get"
  /\ LoadBy(w, Load(file))
  /\ LET a == handleGetCluster(file, req[w].name) IN
       Answer(w, At("done", NoCall, a.code), IF a.code = 200 THEN {a} ELSE {})
  /\ HandlerFrame
  /\ UNCHANGED <<extRegistry, extClusters, faults, runFaults, calls>>

\* A client that waits for each answer before it sends the next request,
\* to a host that was initialized earlier and whose registry container may
\* have been stopped or removed since.
SeqRequests ==
  Requests \cup {Request("get", n, FALSE) : n \in Names}
           \cup {ImageRequest(n, i) : n \in Names, i \in Images}
           \cup {Request("kubeconfig", n, FALSE) : n \in Names}

SeqInit ==
  /\ \E h \in Hosts : hostType = h.type /\ imds = h.imds
  /\ file = MarshalIndent(InitializedState(hostType))
  /\ disk = IF hasNVMeStorage(hostType) THEN "mounted" ELSE "raw"
  /\ extRegistry \in {"absent", "stopped", "running"}
  /\ extClusters = {BaseCluster}
  /\ now = 2
  /\ ProcIs(ProcStart("serving"))
  /\ boots = 1 /\ faults = 0 /\ nreqs = 0
  /\ bootFile = NoFile /\ initLog = <<>> /\ runFaults = 0 /\ seen = "initialized"
  /\ top = Raise(NoProgress, file.rec)

SeqAccept ==
  /\ \A w \in Workers : pc[w] = "idle"
  /\ nreqs < MaxReqs
  /\ nreqs' = nreqs + 1
  /\ \E r \in SeqRequests : req' = [req EXCEPT ![1] = r]
  /\ pc' = [pc EXCEPT ![1] = "begin"]
  /\ UNCHANGED <<file, now, envVars, extVars, sub, call, storeVars, resp, body, calls,
                 mainVars, boots, faults, bootFile, initLog, runFaults, seen, top>>

SeqNext ==
  \/ SeqAccept
  \/ \E w \in Workers : Finish(w)
  \/ \E w \in Workers : CreateCheck(w)
  \/ \E w \in Workers : CreateTool(w)
  \/ \E w \in Workers : Delete(w)
  \/ \E w \in Workers : RegistryStart(w)
  \/ \E w \in Workers : ListClusters(w)
  \/ \E w \in Workers : GetCluster(w)
  \/ \E w \in Workers : handleLoadImage(w)
  \/ \E w \in Workers : handleGetKubeconfig(w)
  \/ \E w \in Workers : MutLoad(w)
  \/ \E w \in Workers : SaveOpen(w)
  \/ \E w \in Workers : SaveWrite(w)

SeqSpec == SeqInit /\ [][SeqNext]_vars

\* ------------------------------------------------------------- external processes
\* The same client and host, with the external process of an adapter call
\* made visible. cmd.CombinedOutput, cmd.Output and cmd.Run start the
\* process and block until it has exited; the command is built with
\* exec.Command, with no context and no timer.

\* The points where a handler calls the adapter.
CallsAdapter(w) ==
  \/ pc[w] = "cr_tool"
  \/ pc[w] = "begin" /\ req[w].op \in {"registryStart", "kubeconfig"}
  \/ pc[w] = "begin" /\ req[w].op = "delete" /\ ~IsProtected(req[w].name)
  \/ pc[w] = "begin" /\ req[w].op = "loadImage" /\ req[w].image # ""

\* An external process exits after some time ("exec") or never ("stuck").
Processes == {"exec", "stuck"}

\* The adapter starts the external process and waits for it.
Run(w) ==
  /\ CallsAdapter(w) /\ sub[w] = ""
  /\ \E s \in Processes : sub' = [sub EXCEPT ![w] = s]
  /\ UNCHANGED <<file, now, envVars, extVars, pc, call, storeVars, req, resp, body,
                 calls, mainVars, boots, faults, nreqs, bootFile, initLog, runFaults,
                 seen, top>>

\* The wait returns once the process has exited; nothing else ends it.
Exited(w) == CallsAdapter(w) => sub[w] = "exec"

\* A step of the goroutine of a request.
LiveStep(w) ==
  \/ Run(w)
  \/ Exited(w) /\ CreateCheck(w)
  \/ Exited(w) /\ CreateTool(w)
  \/ Exited(w) /\ Delete(w)
  \/ Exited(w) /\ RegistryStart(w)
  \/ Exited(w) /\ ListClusters(w)
  \/ Exited(w) /\ GetCluster(w)
  \/ Exited(w) /\ handleLoadImage(w)
  \/ Exited(w) /\ handleGetKubeconfig(w)
  \/ MutLoad(w)
  \/ SaveOpen(w)
  \/ SaveWrite(w)
  \/ Finish(w)

LiveNext ==
  \/ SeqAccept
  \/ \E w \in Workers : LiveStep(w)

\* The Go scheduler runs every goroutine that can take a step.
LiveSpec == SeqInit /\ [][LiveNext]_vars /\ \A w \in Workers : WF_vars(LiveStep(w))

\* ------------------------------------------------------------- properties
\* The record a listClusters request would be answered from.
Listed == Load(file)

\* p calls Load in this step.
LoadSteps(p) ==
  \/ MutLoad(p)
  \/ p = Main /\ MainLoad
  \/ p \in Workers /\ ListClusters(p)
  \/ p \in Workers /\ CreateCheck(p) /\ req[p].name # ""
  \/ p \in Workers /\ StoreLoad(p)

Unparseable(f) == f.kind \in {"trunc", "corrupt"}

StoreMutators ==
  {"MarkInitialized", "UpdateCluster", "RemoveCluster", "SetRegistryStatus",
   "SetBaseClusterReady"}

\* Both requests of the run are createCluster requests for different names,
\* both were answered 201 after a save that succeeded, and nothing failed.
BothCreated ==
  /\ faults = 0 /\ nreqs = 2
  /\ \A w \in Workers :
       pc[w] = "done" /\ req[w].op = "create" /\ resp[w] = 201 /\ saveOk[w]
  /\ req[1].name # req[2].name

\* C1: when two concurrent createCluster requests for different names have
\* both completed, with every adapter call and every write succeeding, the
\* record listClusters reads has an entry for both names.
C1_NoCreateLost ==
  BothCreated => Listed.err = "" /\ \A w \in Workers : Exists(Listed.st, req[w].name)

\* C2: a start that finds initialized = true in the persisted state goes
\* straight to serving: no step of Initialize runs (no external command, no
\* mutator of the store), the file and the outside world stay as they are.
C2_InitializedSkipsInit ==
  /\ [](seen = "initialized" => initLog = <<>> /\ pc[Main] \in {"serving", "down"}
                                /\ sub[Main] = "")
  /\ [][(MainLoad /\ file.kind = "json" /\ file.rec.initialized)
          => (seen' = "initialized" /\ pc'[Main] = "serving" /\ file' = file
              /\ extVars' = extVars)]_vars

C2_Witness ==
  /\ seen = "initialized" /\ pc[Main] = "serving"
  /\ file.kind = "json" /\ file.rec.initialized /\ nreqs = 0

\* C3: after a run of Initialize that failed, on a host whose record was
\* absent or readable when the run began, load() succeeds and reports
\* initialized = false.
C3_FailedRunReportsUninitialized ==
  (pc[Main] = "exited" /\ bootFile.kind \in {"none", "json"})
    => (Listed.err = "" /\ ~Listed.st.initialized)

\* C4: after a run of Initialize that failed at an external command, the
\* persisted record is the one the run found.
C4_FailedRunLeavesRecord ==
  (pc[Main] = "exited" /\ initLog # <<>>
     /\ initLog[Len(initLog)] \notin StoreMutators)
    => file = bootFile

\* C5: a run of Initialize that follows an aborted one, finds a readable
\* record with initialized = false and the registry or the base cluster
\* already there, and meets no failing tool or write, does not fail.
C5_RerunNotStuck ==
  ~ /\ boots > 1 /\ seen = "fresh" /\ runFaults = 0
    /\ extRegistry = "running" \/ BaseCluster \in extClusters
    /\ pc[Main] = "exited"

\* C6: a Load that runs while another process is inside Save returns the
\* record as it was before that Save or the record that Save writes.
C6_LoadSeesWholeRecord == \A p \in Procs : lmid[p] => ~ltorn[p]

\* C7: Load, when there is no file, returns without error a state with
\* initialized = false, every progress flag false and an empty, non-nil
\* cluster map, and leaves the file absent.
C7_FreshState ==
  [][\A p \in Procs :
       (file = NoFile /\ LoadSteps(p))
         => /\ lerr'[p] = ""
            /\ ~st'[p].initialized /\ st'[p].initializedAt = 0
            /\ ~st'[p].packagesInstalled /\ ~st'[p].baseClusterReady
            /\ ~st'[p].registryRunning
            /\ ~st'[p].clustersNil /\ DOMAIN st'[p].clusters = {}
            /\ file' = NoFile]_vars

C7_Witness ==
  /\ file = NoFile /\ bootFile = NoFile /\ seen = "fresh"
  /\ pc[Main] = "detect" /\ lerr[Main] = "" /\ st[Main] = FreshState

\* C8: Load and every mutator, called while the file does not parse, return
\* an error and write nothing: the file stays as it is.
C8_CorruptIsError ==
  [][\A p \in Workers :
       (Unparseable(file) /\ LoadSteps(p))
         => /\ lerr'[p] = "parse"
            /\ pc'[p] = "done" /\ resp'[p] = 500 /\ sub'[p] = ""
            /\ file' = file]_vars

C8_Witness ==
  /\ file = CorruptFile
  /\ \E w \in Workers :
       /\ pc[w] = "done" /\ resp[w] = 500 /\ lerr[w] = "parse"
       /\ req[w].op = "MarkInitialized"
  /\ \E w \in Workers :
       /\ pc[w] = "done" /\ resp[w] = 500 /\ lerr[w] = "parse"
       /\ req[w].op = "RemoveCluster"

\* C9: a createCluster request whose name is in the persisted record when
\* the handler loads it is answered 409; the handler calls no tool, enters no
\* mutator, and the file and the clusters outside stay as they are.
C9_ConflictLeavesState ==
  [][\A w \in Workers :
       (CreateCheck(w) /\ file.kind = "json"
          /\ req[w].name \in DOMAIN file.rec.clusters)
         => /\ pc'[w] = "done" /\ resp'[w] = 409
            /\ calls'[w] = <<>> /\ sub'[w] = ""
            /\ file' = file /\ extVars' = extVars]_vars

C9_Witness ==
  \E w \in Workers :
    /\ pc[w] = "done" /\ resp[w] = 409 /\ calls[w] = <<>>
    /\ req[w] = Request("create", "dev1", FALSE)
    /\ file.kind = "json" /\ file.rec.clusters["dev1"].kubevirt

\* C10: a deleteCluster request for "kind" is answered 403 whatever the
\* state and whatever the other requests do; its handler calls no tool and
\* never enters a mutator of the store.
C10_BaseClusterProtected ==
  \A w \in Workers :
    (req[w].op = "delete" /\ req[w].name = BaseCluster)
      => /\ pc[w] \in {"begin", "done"}
         /\ calls[w] = <<>> /\ sub[w] = ""
         /\ pc[w] = "done" => resp[w] = 403

C10_Witness ==
  /\ pc[1] = "done" /\ resp[1] = 403 /\ req[1] = Request("delete", BaseCluster, FALSE)
  /\ pc[2] = "cr_upd" /\ sub[2] = "write"

\* C11: with one request at a time, when createCluster(name, k) for a name
\* other than "kind" has answered 201, getCluster(name) answers 200 with
\* status running, type development and kubevirt = k; when deleteCluster(name)
\* has answered 200, getCluster(name) answers 404.
C11_RoundTrip ==
  \A w \in Workers :
    (pc[w] = "done" /\ req[w].name \notin {"", BaseCluster})
      => /\ (req[w].op = "create" /\ resp[w] = 201)
              => LET got == handleGetCluster(file, req[w].name) IN
                 /\ got.code = 200 /\ got.name = req[w].name
                 /\ got.status = "running" /\ got.type = "development"
                 /\ got.kubevirt = req[w].kubevirt
         /\ (req[w].op = "delete" /\ resp[w] = 200)
              => handleGetCluster(file, req[w].name).code = 404

\* C12: when CreateCluster has returned an error to handleCreateCluster,
\* whichever of its commands failed, the request is answered 500 and the
\* handler enters no mutator of the store: it writes nothing.
C12_AdapterFailureWritesNothing ==
  \A w \in Workers :
    (req[w].op = "create" /\ calls[w] # <<>> /\ calls[w][1].err)
      => /\ pc[w] = "done" /\ resp[w] = 500
         /\ sub[w] = "" /\ call[w] = NoCall
         /\ Len(calls[w]) = 1

C12_Witness ==
  /\ pc[1] = "done" /\ resp[1] = 500 /\ req[1] = Request("create", "dev1", TRUE)
  /\ calls[1] # <<>> /\ calls[1][1].failed = NodeConfig
  /\ seen = "initialized"
  /\ file.kind = "json" /\ ~Exists(file.rec, "dev1")
  /\ "dev1" \in extClusters

\* C13: whenever createCluster(name, kubevirt) has answered 201, the record
\* on disk has an entry for name with status running, the kubevirt asked
\* for, and type infrastructure for "kind", development otherwise.
C13_CreatedIsStored ==
  \A w \in Workers :
    (pc[w] = "done" /\ req[w].op = "create" /\ resp[w] = 201)
      => /\ Listed.err = ""
         /\ Exists(Listed.st, req[w].name)
         /\ Listed.st.clusters[req[w].name].status = "running"
         /\ Listed.st.clusters[req[w].name].kubevirt = req[w].kubevirt
         /\ Listed.st.clusters[req[w].name].type = ClusterType(req[w].name)

\* The names of the entries of type infrastructure in a state.
Infrastructure(hs) == {n \in DOMAIN hs.clusters : hs.clusters[n].type = "infrastructure"}

\* C14: once the host has been initialized, every record that can be loaded
\* has exactly one entry of type infrastructure, the entry "kind"; no
\* request ever calls UpdateCluster or RemoveCluster for "kind", so the entry
\* is the one Initialize wrote and it is never removed.
C14_OneInfrastructureCluster ==
  /\ (top.initialized /\ Listed.err = "")
       => Infrastructure(Listed.st) = {BaseCluster}
  /\ \A w \in Workers :
       call[w].fn \in {"UpdateCluster", "RemoveCluster"}
         => call[w].name # BaseCluster /\ call[w].ctype # "infrastructure"

C14_Witness ==
  /\ seen = "fresh" /\ pc[Main] = "serving" /\ top.initialized
  /\ \E w \in Workers :
       /\ pc[w] = "done" /\ req[w] = Request("create", "dev1", FALSE) /\ resp[w] = 201
  /\ Listed.err = "" /\ DOMAIN Listed.st.clusters = {BaseCluster, "dev1"}
  /\ Listed.st.clusters["dev1"].type = "development"

\* C15: a record on disk with initialized = true has packages_installed,
\* registry_running and base_cluster_ready true and an entry "kind" with
\* status running, type infrastructure and kubevirt false.
C15_InitializedMeansComplete ==
  (file.kind = "json" /\ file.rec.initialized)
    => /\ file.rec.packagesInstalled
       /\ file.rec.registryRunning
       /\ file.rec.baseClusterReady
       /\ Exists(file.rec, BaseCluster)
       /\ file.rec.clusters[BaseCluster].status = "running"
       /\ file.rec.clusters[BaseCluster].type = "infrastructure"
       /\ ~file.rec.clusters[BaseCluster].kubevirt

C15_Witness ==
  /\ seen = "fresh" /\ pc[Main] = "serving" /\ nreqs = 0
  /\ initLog # <<>> /\ initLog[Len(initLog)] = "MarkInitialized"
  /\ file.kind = "json" /\ file.rec.initialized /\ file.rec.initializedAt > 1

\* C16: once a record with initialized = true has been on disk, every record
\* on disk has initialized = true and the initialized_at of that first one,
\* and no process, in this start or a later one, is inside MarkInitialized
\* again.
C16_InitializedOnce ==
  top.initialized
    => /\ file.kind # "none"
       /\ file.kind = "json"
            => file.rec.initialized /\ file.rec.initializedAt = top.initializedAt
       /\ \A p \in Procs : call[p].fn # "MarkInitialized"

C16_Witness ==
  /\ boots = 2 /\ seen = "initialized" /\ top.initialized /\ top.initializedAt > 1
  /\ \E w \in Workers :
       /\ pc[w] = "done" /\ req[w].op = "registryStart" /\ resp[w] = 200 /\ saveOk[w]
  /\ file.kind = "json" /\ file.rec.initializedAt = top.initializedAt

\* C17: a flag among packages_installed, base_cluster_ready and
\* registry_running that a record on disk ever had true is true in every
\* state that Load returns afterwards.
C17_FlagsMonotonic ==
  Listed.err = ""
    => /\ top.packagesInstalled => Listed.st.packagesInstalled
       /\ top.baseClusterReady => Listed.st.baseClusterReady
       /\ top.registryRunning => Listed.st.registryRunning

C17_Witness ==
  /\ boots = 2 /\ seen = "fresh" /\ pc[Main] = "serving"
  /\ bootFile = NoFile /\ runFaults = 0
  /\ initLog # <<>> /\ initLog[1] = "detectStorage"
  /\ top.registryRunning /\ top.baseClusterReady /\ top.packagesInstalled
  /\ Listed.err = "" /\ Listed.st.registryRunning /\ Listed.st.baseClusterReady

\* C18: a delete of a name other than the base cluster's answers 200 exactly
\* when the adapter's DeleteCluster returned no error, whatever RemoveCluster
\* does afterwards; when DeleteCluster returned an error the request is
\* answered 500 at once, without a call of RemoveCluster and so without a
\* write of the state file by this request.
C18_DeleteFollowsAdapter ==
  \A w \in Workers :
    (req[w].op = "delete" /\ req[w].name # BaseCluster /\ pc[w] # "begin")
      => /\ Len(calls[w]) = 1
         /\ calls[w][1].fn = "DeleteCluster"
         /\ calls[w][1].err
              => /\ pc[w] = "done" /\ resp[w] = 500
                 /\ sub[w] = "" /\ call[w] = NoCall
         /\ ~calls[w][1].err
              => /\ pc[w] \in {"del_rm", "done"}
                 /\ pc[w] = "done" => resp[w] = 200
                 /\ pc[w] = "del_rm" => call[w].fn = "RemoveCluster"

C18_Witness ==
  /\ pc[1] = "done" /\ req[1] = Request("delete", "dev1", FALSE) /\ resp[1] = 200
  /\ calls[1] # <<>> /\ ~calls[1][1].err
  /\ ~saveOk[1]
  /\ "dev1" \notin extClusters
  /\ file.kind = "json" /\ "dev1" \in DOMAIN file.rec.clusters

\* C19: a call of the adapter's CreateCluster with the registry attached that
\* returned no error ran the cluster creation, the configuration of the
\* nodes and the connection of the registry to the cluster network, and none
\* of the three failed.
C19_AttachFailureReported ==
  \A p \in DOMAIN calls :
    \A i \in 1..Len(calls[p]) :
      (calls[p][i].fn = "CreateCluster" /\ ~calls[p][i].err)
        => /\ calls[p][i].cmds = <<KindCreate, NodeConfig, NetworkConnect>>
           /\ calls[p][i].failed = ""

C21_RegistryStartFrame ==
  (nreqs = 1 /\ pc[1] = "done" /\ req[1].op = "registryStart")
    => /\ calls[1] # <<>>
       /\ calls[1][1].err <=> resp[1] = 500
       /\ ~calls[1][1].err <=> resp[1] = 200
       /\ resp[1] = 200
            => file = MarshalIndent(SetRegistryStatus(InitializedState(hostType), TRUE))
       /\ resp[1] = 500 => file = MarshalIndent(InitializedState(hostType))

\* C22: from the moment a request to load an image is accepted to the
\* moment its handler has returned, whatever the adapter answered, the state
\* file is not written and the handler is never inside a method of the store.
C22_LoadImageWritesNothing ==
  [][\A w \in Workers :
       (req[w].op = "loadImage" \/ req'[w].op = "loadImage")
         => /\ file' = file
            /\ sub'[w] = "" /\ call'[w] = NoCall]_vars

C22_Witness ==
  /\ nreqs = 2 /\ pc[1] = "done" /\ req[1] = ImageRequest("dev1", "app:1")
  /\ resp[1] = 200
  /\ calls[1] # <<>> /\ calls[1][1].fn = "LoadImage" /\ ~calls[1][1].err
  /\ file.kind = "json" /\ "dev1" \in DOMAIN file.rec.clusters

\* C23: a list request answered 200 carries exactly one item for each entry
\* of the cluster map its Load returned, with the entry's name, status, type
\* and kubevirt, after no call of the adapter and no call of a store
\* mutator, the file being as it was loaded; a get request is answered 404
\* exactly when its Load succeeded and the name is not in the map.
C23_ListIsTheMap ==
  \A w \in Workers :
    /\ (pc[w] = "done" /\ req[w].op = "list")
         => /\ resp[w] = 200 <=> lerr[w] = ""
            /\ calls[w] = <<>> /\ call[w] = NoCall /\ sub[w] = ""
            /\ resp[w] = 200
                 => /\ Cardinality(body[w]) = Cardinality(DOMAIN st[w].clusters)
                    /\ \A i \in body[w] :
                         /\ i.name \in DOMAIN st[w].clusters
                         /\ i.status = st[w].clusters[i.name].status
                         /\ i.type = st[w].clusters[i.name].type
                         /\ i.kubevirt = st[w].clusters[i.name].kubevirt
                    /\ \A n \in DOMAIN st[w].clusters : \E i \in body[w] : i.name = n
                    /\ Load(file) = [err |-> "", st |-> st[w]]
    /\ (pc[w] = "done" /\ req[w].op = "get")
         => (resp[w] = 404 <=> (lerr[w] = "" /\ req[w].name \notin DOMAIN st[w].clusters))

C23_Witness ==
  /\ nreqs = 2 /\ pc[1] = "done" /\ req[1].op = "list" /\ resp[1] = 200
  /\ Cardinality(body[1]) = 2
  /\ \E i \in body[1] : i.name = "dev1" /\ i.kubevirt /\ i.type = "development"

\* C24: Initialize has run a step in this process only if main's Load
\* returned without error a state with initialized = false; after a Load
\* that failed, no step of Initialize is run and main is at none of them.
C24_LoadErrorRunsNothing ==
  /\ initLog # <<>> => seen = "fresh"
  /\ seen = "error"
       => /\ initLog = <<>>
          /\ pc[Main] \notin {"detect", "install", "storage", "registry", "setreg",
                              "cluster", "updcluster", "baseready", "markinit"}

\* C25: what Initialize has called in this run is, in this order, the
\* detection of the storage, the installation of the packages, the
\* configuration of the storage, CreateRegistry, CreateCluster and then the
\* writes of the store; no step is skipped or repeated, and a run that
\* has stopped before MarkInitialized returned has stopped in its last step.
C25_StepsInOrder ==
  LET phase(x) ==
        CASE x = "detectStorage" -> 1
          [] x = "installPackages" -> 2
          [] x \in {"setupNVMeStorage", "setupDefaultStorage"} -> 3
          [] x = "CreateRegistry" -> 4
          [] x = "CreateCluster" -> 5
          [] OTHER -> 6
  IN /\ initLog # <<>> => phase(initLog[1]) = 1
     /\ \A i \in 1..(Len(initLog) - 1) :
          \/ phase(initLog[i + 1]) = phase(initLog[i]) + 1
          \/ phase(initLog[i]) = 6 /\ phase(initLog[i + 1]) = 6

\* C26: a request is being served only while main is serving; main is
\* serving only if its Load found initialized = true or Initialize has run
\* to the end in this process, MarkInitialized having returned nil; and a
\* process whose Initialize failed has exited with no request accepted.
C26_ServesOnlyInitialized ==
  /\ \A w \in Workers : pc[w] # "idle" => pc[Main] = "serving"
  /\ pc[Main] = "serving"
       => \/ seen = "initialized"
          \/ /\ Len(initLog) = 9 /\ initLog[9] = "MarkInitialized"
             /\ saveOk[Main]
  /\ pc[Main] = "exited"
       => /\ seen # "initialized"
          /\ ~(Len(initLog) = 9 /\ saveOk[Main])
          /\ \A w \in Workers : pc[w] = "idle" /\ req[w] = NoReq

C26_Witness ==
  /\ boots = 1 /\ seen = "fresh" /\ pc[Main] = "serving"
  /\ pc[1] = "done" /\ req[1].op = "create" /\ resp[1] = 201
  /\ Len(initLog) = 9

\* C27: whenever no request is being served and the state file can be
\* loaded, the names of its cluster map are the clusters that exist in kind.
C27_StateMatchesKind ==
  ((\A w \in Workers : pc[w] = "idle") /\ Listed.err = "")
    => DOMAIN Listed.st.clusters = extClusters

\* C28: once RemoveCluster(name) has returned nil to the delete of a name
\* other than the base cluster's, whatever other call of the store ran
\* beside it, provided that call is not an UpdateCluster of the same name,
\* a state loaded from the file has no entry of that name.
C28_DeletedStaysDeleted ==
  \A w \in Workers :
    (/\ pc[w] = "done" /\ req[w].op = "RemoveCluster" /\ saveOk[w]
     /\ req[w].name # BaseCluster
     /\ \A v \in Workers \ {w} :
          /\ nreqs = 2 => pc[v] # "idle"
          /\ ~(req[v].op = "UpdateCluster" /\ req[v].name = req[w].name)
     /\ Listed.err = "")
      => req[w].name \notin DOMAIN Listed.st.clusters

\* C29: of two requests being served that create the same name, at most
\* one has called the adapter's CreateCluster and at most one is answered
\* 201.
C29_OneCreatePerName ==
  \A w, v \in Workers :
    (w # v /\ req[w].op = "create" /\ req[v].op = "create"
     /\ req[w].name # "" /\ req[w].name = req[v].name)
      => /\ ~(calls[w] # <<>> /\ calls[v] # <<>>)
         /\ ~(resp[w] = 201 /\ resp[v] = 201)

\* C30: the first request of a client being a delete of a name other than
\* the base cluster's, which the state as initialization left it does not
\* have, the handler calls no adapter function and answers 404.
C30_DeleteAbsentIsNotFound ==
  (/\ nreqs = 1 /\ req[1].op = "delete" /\ req[1].name # BaseCluster
   /\ pc[1] # "begin")
    => /\ calls[1] = <<>>
       /\ pc[1] = "done" /\ resp[1] = 404

\* C31: when a mutator is the only call of the store that has been made
\* and its Save succeeds, the state loaded from the file afterwards differs
\* from the state loaded before only in the mutator's own part: the entry
\* of the name for UpdateCluster and RemoveCluster, registry_running for
\* SetRegistryStatus, base_cluster_ready for SetBaseClusterReady, and the
\* six fields MarkInitialized assigns.
C31_MutatorFrame ==
  [][\A w \in Workers :
       (nreqs = 1 /\ sub[w] = "write" /\ sub'[w] = "" /\ saveOk'[w])
         => LET a == Load(savePre[w]).st
                b == Load(file').st
                c == call[w]
                others == (DOMAIN a.clusters \cup DOMAIN b.clusters) \ {c.name}
            IN /\ Load(savePre[w]).err = "" /\ Load(file').err = ""
               /\ c.fn \in StoreMutators
               /\ c.fn \in {"UpdateCluster", "RemoveCluster"}
                    => /\ [b EXCEPT !.clusters = a.clusters] = a
                       /\ \A n \in others :
                            /\ n \in DOMAIN a.clusters /\ n \in DOMAIN b.clusters
                            /\ b.clusters[n] = a.clusters[n]
                       /\ c.fn = "UpdateCluster" => c.name \in DOMAIN b.clusters
                       /\ c.fn = "RemoveCluster" => c.name \notin DOMAIN b.clusters
               /\ c.fn = "SetRegistryStatus"
                    => /\ [b EXCEPT !.registryRunning = a.registryRunning] = a
                       /\ b.registryRunning = c.running
               /\ c.fn = "SetBaseClusterReady"
                    => /\ [b EXCEPT !.baseClusterReady = a.baseClusterReady] = a
                       /\ b.baseClusterReady
               /\ c.fn = "MarkInitialized"
                    => /\ [b EXCEPT !.initialized = a.initialized,
                                    !.initializedAt = a.initializedAt,
                                    !.instanceType = a.instanceType,
                                    !.storageType = a.storageType,
                                    !.storageDevice = a.storageDevice,
                                    !.packagesInstalled = a.packagesInstalled] = a
                       /\ b.initialized /\ b.packagesInstalled]_vars

C31_Witness ==
  /\ nreqs = 1 /\ pc[1] = "done" /\ saveOk[1]
  /\ req[1].op = "UpdateCluster" /\ req[1].name = "dev2"
  /\ file.kind = "json" /\ DOMAIN file.rec.clusters = {"kind", "dev1", "dev2"}
  /\ file.rec.clusters["dev1"].created = 1 /\ file.rec.clusters["dev1"].kubevirt

\* C32: a mutator returns an error only when its Load or its Save failed,
\* whatever the record holds.  MarkInitialized on a record that has
\* initialized = true writes the time of this call to initialized_at and its
\* arguments to the descriptive fields; UpdateCluster of a name the record
\* has writes a whole new entry, with the time of this call as created.
C32_NoPreconditions ==
  [][\A w \in Workers :
       /\ (sub[w] # "" /\ sub'[w] = "" /\ ~saveOk'[w])
            => \/ sub[w] = "load" /\ lerr'[w] # ""
               \/ sub[w] \in {"open", "write"}
                  /\ (faults' > faults \/ file.kind = "unreadable")
       /\ (nreqs = 1 /\ sub[w] = "write" /\ sub'[w] = "" /\ saveOk'[w])
            => LET a == Load(savePre[w]).st
                   b == Load(file').st
                   c == call[w]
               IN /\ (c.fn = "MarkInitialized" /\ a.initialized)
                       => /\ b.initialized
                          /\ b.initializedAt = now - 1
                          /\ b.initializedAt # a.initializedAt
                          /\ b.instanceType = c.itype
                          /\ b.storageType = c.stype
                          /\ b.storageDevice = c.sdev
                  /\ (c.fn = "UpdateCluster" /\ c.name \in DOMAIN a.clusters)
                       => /\ b.clusters[c.name] =
                               ClusterInfo("running", now - 1, c.ctype, c.kubevirt)
                          /\ b.clusters[c.name].created # a.clusters[c.name].created]_vars

C32_Witness ==
  /\ nreqs = 1 /\ pc[1] = "done" /\ saveOk[1] /\ req[1].op = "MarkInitialized"
  /\ file.kind = "json" /\ file.rec.initializedAt = 2
  /\ file.rec.instanceType = "unknown" /\ file.rec.storageType = "ebs-only"
  /\ file.rec.baseClusterReady /\ BaseCluster \in DOMAIN file.rec.clusters

C34_NoRetry ==
  /\ \A w \in Workers :
       /\ \A i, j \in 1..Len(calls[w]) : calls[w][i].fn = calls[w][j].fn => i = j
       /\ \A i \in 1..Len(calls[w]) :
            /\ \A a, b \in 1..Len(calls[w][i].cmds) :
                 calls[w][i].cmds[a] = calls[w][i].cmds[b] => a = b
            /\ calls[w][i].err
                 => /\ Len(calls[w]) = 1
                    /\ pc[w] = "done" /\ resp[w] = 500
  /\ \A i, j \in 1..Len(initLog) : initLog[i] = initLog[j] => i = j

C34_Witness ==
  /\ seen = "fresh" /\ Len(initLog) = 9 /\ pc[Main] = "serving"
  /\ pc[1] = "done" /\ req[1].op = "kubeconfig" /\ resp[1] = 500
  /\ Len(calls[1]) = 1 /\ calls[1][1].err

\* C35: every request that has started a call of the adapter is answered
\* in the end, whether or not the external process exits.
C35_AdapterCallReturns ==
  \A w \in Workers : (sub[w] \in Processes) ~> (pc[w] = "done")

\* A request is answered in the end unless an external process it waits
\* for never exits.
ReturnsUnlessStuck ==
  \A w \in Workers : (pc[w] = "begin") ~> (pc[w] = "done" \/ sub[w] = "stuck")

\* C36: RemoveCluster of a name the record does not have returns nil when
\* its Load and its Save meet no failure, and the state loaded from the file
\* afterwards is the state loaded before; the state RemoveCluster has
\* written is the one a second RemoveCluster of the name writes.  Checked
\* where the calls of the store made so far are this one, or this one and
\* another RemoveCluster of the same name.
C36_RemoveAbsent ==
  [][\A w \in Workers :
       LET c == call[w]
           pre == Load(savePre[w])
       IN /\ (/\ sub[w] = "load" /\ sub'[w] # "load" /\ c.fn = "RemoveCluster"
              /\ Load(file).err = "")
               => sub'[w] = "open"
          /\ (/\ sub[w] = "write" /\ sub'[w] = "" /\ c.fn = "RemoveCluster"
              /\ faults' = faults /\ file = TruncatedFile /\ pre.err = ""
              /\ \/ nreqs = 1
                 \/ /\ nreqs = 2
                    /\ \A v \in Workers :
                         req[v].op = "RemoveCluster" /\ req[v].name = c.name)
               => /\ saveOk'[w]
                  /\ Load(file').err = ""
                  /\ c.name \notin DOMAIN Load(file').st.clusters
                  /\ RemoveCluster(Load(file').st, c.name) = Load(file').st
                  /\ c.name \notin DOMAIN pre.st.clusters
                       => Load(file').st = pre.st]_vars

C36_Witness ==
  /\ nreqs = 2 /\ faults = 0
  /\ \A w \in Workers :
       /\ pc[w] = "done" /\ saveOk[w] /\ ~lmid[w]
       /\ req[w].op = "RemoveCluster" /\ req[w].name = "dev1"
  /\ file.kind = "json" /\ DOMAIN file.rec.clusters = {"kind"}

====
